---- MODULE Spec2Model ----
(***************************************************************************)
(* The background worker of friday (core/management/commands/              *)
(* summarize_rooms.py) with the services it drives: the chat gateway       *)
(* (core/services/matrix.py), the LLM context builder and room processor   *)
(* (core/services/llm.py) and the records they write (core/models).        *)
(* Time is counted in minutes.                                            *)
(***************************************************************************)
EXTENDS Integers, Sequences, FiniteSets, TLC

\* ---------------------------------------------------------------- bounds
MaxClock == 15
MaxPosts == 2
MaxCommands == 2
MaxFetchLen == 4
MaxFetchTs == 3
MaxTodos == 1
TickMinutes == 15
MaxTasks == 2
MaxUpdates == 2
MaxRuns == 1
MaxManual == 1
NumWorkers == 3
MaxAliases == 4
MaxDays == 1

\* ------------------------------------------------------ program constants
SUMMARY_COOLDOWN_MINUTES == 15
FRIDAY_USER_ID == "@friday"
Limit == 2
MinutesPerDay == 1440

STATUS_IDLE == "idle"
STATUS_PROCESSING == "processing"
STATUS_FAILED == "failed"
STATUS_PENDING == "pending"
STATUS_DONE == "done"
STATUS_CANCELLED == "cancelled"
MessageType == "m.room.message"
EventTypes == {MessageType, "m.room.member"}

\* ----------------------------------------------------- database fixtures
Subscribers == {"s1", "s2"}
Rooms == {"r1", "r2", "r3", "r4"}
RoomOrder == <<"r1", "r2", "r3", "r4">>
SubscriberOrder == <<"s1", "s2">>
\* s1 watches r1 "aaaa" and r2 "bbbb"; s2 watches r3 "AAAA" and has stopped
\* watching r4 "bbbb"
RoomSubscriber == [r \in Rooms |-> IF r \in {"r1", "r2"} THEN "s1" ELSE "s2"]
RoomCode == [r \in Rooms |-> IF r = "r1" THEN "aaaa" ELSE IF r = "r3" THEN "AAAA" ELSE "bbbb"]
RoomIsActive == [r \in Rooms |-> r # "r4"]

\* ------------------------------------------------------------- utilities
None == <<>>
Some(x) == <<x>>
Val(o) == o[1]
Min(a, b) == IF a < b THEN a ELSE b
Range(s) == {s[i] : i \in 1..Len(s)}
Reverse(s) == [i \in 1..Len(s) |-> s[Len(s) + 1 - i]]

RECURSIVE SelectSeqBy(_, _)
\* the members of the ordered list `order` that are in the set `keep`
SelectSeqBy(order, keep) ==
    IF order = <<>> THEN <<>>
    ELSE (IF Head(order) \in keep THEN <<Head(order)>> ELSE <<>>)
         \o SelectSeqBy(Tail(order), keep)

\* str.lower() on the tokens of the model
Lower(tok) == IF tok = "AAAA" THEN "aaaa" ELSE tok

\* ---------------------------------------------------------- chat gateway
\* An event of a room's timeline is [ts, type]; a timeline is kept newest
\* first, the order in which the transport delivers it with dir=b.
NewestFirst(tl) == \A i \in 1..Len(tl) - 1 : tl[i].ts >= tl[i + 1].ts

\* the single page the homeserver returns for GET .../messages?dir=b&limit=n
TransportPage(tl, n) == SubSeq(tl, 1, Min(n, Len(tl)))

\* the loop over the chunk without its cutoff test
GetMessages_NoCutoff(chunk, from_timestamp) ==
    Reverse(SelectSeq(chunk, LAMBDA e : e.type = MessageType))

GetMessages_NoReverse(chunk, from_timestamp) ==
    SelectSeq(chunk, LAMBDA e : /\ e.type = MessageType
                                /\ ~(from_timestamp # None /\ e.ts <= Val(from_timestamp)))

\* the loop over the chunk: keep m.room.message events newer than the cutoff,
\* then messages.reverse()
FilterChunk(chunk, from_timestamp) ==
    Reverse(SelectSeq(chunk, LAMBDA e : /\ e.type = MessageType
                                        /\ ~(from_timestamp # None /\ e.ts <= Val(from_timestamp))))

get_messages_IgnoresWatermark(tl, from_timestamp) ==
    FilterChunk(TransportPage(tl, Limit), None)

\* RoomService.get_messages: one request with limit=Limit, no continuation
get_messages(tl, from_timestamp) ==
    FilterChunk(TransportPage(tl, Limit), from_timestamp)

\* every m.room.message event of the timeline newer than the cutoff
NewerThan(tl, from_timestamp) ==
    {i \in 1..Len(tl) : /\ tl[i].type = MessageType
                        /\ (from_timestamp = None \/ tl[i].ts > Val(from_timestamp))}

\* ------------------------------------------------- state of the worker
VARIABLES
    clock,          \* timezone.now(), in minutes
    running,        \* Command.running
    pc,             \* where Command.handle is: "sleep", "cycle", "rooms", "stopped"
    queue,          \* subscribers run_once has still to process in this cycle
    enumerated,     \* the subscribers get_active_subscribers returned for this cycle
    served,         \* the subscribers whose process_subscriber has returned or raised
    cur,            \* the subscriber whose process_summaries is running
    roomQueue,      \* rooms process_summaries has still to process
    targets,        \* the rooms handed to process_summaries
    today,          \* the local today of process_summaries
    attempted,      \* the rooms whose loop body has run
    summaries_sent, \* the local counter of process_summaries
    control,        \* per subscriber, the latest message of the control room
    timeline,       \* per watched room, its events on the homeserver, newest first
    pstates,        \* ConversationProcessingState rows
    summaries,      \* RoomSummary rows, in creation order
    todos,          \* TodoList rows, the id is the index
    daily,          \* RoomDailySummaryCount rows
    commands,       \* messages posted so far by subscribers to control rooms
    subs,           \* per subscriber, the Subscriber row and its Subscription status
    reads,          \* <<s, r>>: the current process_subscriber(s) call has read room r
    stderr          \* the last failure this cycle has written to stderr

loopVars ==
    <<running, pc, queue, enumerated, served, cur, roomQueue, targets, today, attempted,
      summaries_sent>>
dbVars == <<pstates, summaries, todos, daily>>
envVars == <<clock, timeline, commands, subs>>
mainVars == <<loopVars, dbVars, envVars, control, reads, stderr>>

\* ------------------------------------------- state of the fetch harness
VARIABLES fetchTimeline, fetchSince, fetchOut, fetchCalls
fetchVars == <<fetchTimeline, fetchSince, fetchOut, fetchCalls>>

\* ---- state of process_room's task phase run next to the todo API
VARIABLES
    rcPc,           \* where process_room is: "idle", "updates", "loaded", "new", "summary", "done", "raised"
    rcRoom,         \* state.room of the run
    rcResult,       \* the result LLMService.process returned
    rcUpdates,      \* the todo_updates the loop has still to visit
    rcNew,          \* the new_todos the loop has still to visit
    rcTodo,         \* the TodoList object the loop holds: <<id, row>>, or None
    rcStart,        \* the TodoList table when the run began
    rcRuns,         \* the runs begun so far
    apiPc,          \* where update_todo_status is: "idle", "loaded", "ok", "404", "400"
    apiReq,         \* its request: [id, status]
    apiCalls        \* the todo API requests made so far
rcVars == <<rcPc, rcRoom, rcResult, rcUpdates, rcNew, rcTodo, rcStart, rcRuns>>
apiVars == <<apiPc, apiReq, apiCalls>>

\* ---- state of concurrent get_and_increment_daily_count calls
VARIABLES
    cntPc,          \* per worker: "idle", "create", "update", "refresh", "done"
    cntRoom,        \* per worker, the room argument
    cntLocal        \* per worker, the count of its daily_count object
cntVars == <<cntPc, cntRoom, cntLocal>>

\* SubscriberRoom.save() of a new room without a room_code
VARIABLES
    aliasRows,      \* SubscriberRoom rows: [subscriber, room_code], in creation order
    genPc,          \* "idle", "try", "fallback", "save", "stored", "integrity_error"
    genSub,         \* self.subscriber
    genAttempts,    \* iterations of the for loop so far
    genCode         \* the local code of _generate_unique_code, then self.room_code

aliasVars == <<aliasRows, genPc, genSub, genAttempts, genCode>>

sideVars == <<fetchVars, rcVars, apiVars, cntVars, aliasVars>>

FetchEvents == [ts : 0..MaxFetchTs, type : EventTypes]

FetchInit ==
    /\ fetchTimeline = <<>>
    /\ fetchSince = None
    /\ fetchOut = <<>>
    /\ fetchCalls = 0

\* the homeserver appends an event at the newest end of the timeline
FetchArrive(e) ==
    /\ Len(fetchTimeline) < MaxFetchLen
    /\ fetchTimeline # <<>> => e.ts >= Head(fetchTimeline).ts
    /\ fetchTimeline' = <<e>> \o fetchTimeline
    /\ fetchOut' = <<>>
    /\ fetchCalls' = 0
    /\ UNCHANGED fetchSince
    /\ UNCHANGED <<mainVars, rcVars, apiVars, cntVars, aliasVars>>

\* a caller runs get_messages(room, from_timestamp=since)
FetchCall(since) ==
    /\ fetchSince' = since
    /\ fetchOut' = get_messages(fetchTimeline, since)
    /\ fetchCalls' = 1
    /\ UNCHANGED fetchTimeline
    /\ UNCHANGED <<mainVars, rcVars, apiVars, cntVars, aliasVars>>

vars == <<mainVars, sideVars>>

NoMessage == [body |-> <<>>, sender |-> ""]
FridayMessage(kind) == [body |-> <<kind>>, sender |-> FRIDAY_USER_ID]
UserBodies ==
    { <<"help">>, <<"rooms">>, <<"summary", "all">>, <<"summary", "AAAA">>,
      <<"summary", "bbbb">>, <<"todo", "all">>, <<"todo", "aaaa">>,
      <<"summary">>, <<"hello">> }

\* a Subscriber row the worker serves, with its active Subscription
ActiveSubscriber == [is_active |-> TRUE, matrix_room_id |-> Some("!control"), subscription |-> "active"]

MainInit ==
    /\ clock = 0
    /\ running = TRUE
    /\ pc = "sleep"
    /\ queue = <<>>
    /\ enumerated = {}
    /\ served = {}
    /\ cur = ""
    /\ roomQueue = <<>>
    /\ targets = {}
    /\ today = 0
    /\ attempted = {}
    /\ summaries_sent = 0
    /\ control = [s \in Subscribers |-> NoMessage]
    /\ timeline = [r \in Rooms |-> <<>>]
    /\ pstates = {}
    /\ summaries = <<>>
    /\ todos = <<>>
    /\ daily = {}
    /\ commands = 0
    /\ subs = [s \in Subscribers |-> ActiveSubscriber]
    /\ reads = {}
    /\ stderr = <<>>

\* ---------------------------------------------------------- environment
Tick ==
    /\ clock + TickMinutes <= MaxClock
    /\ clock' = clock + TickMinutes
    /\ UNCHANGED stderr
    /\ UNCHANGED sideVars
    /\ UNCHANGED <<loopVars, dbVars, timeline, commands, subs, control, reads>>

\* timezone.now().date()
Date(t) == t \div MinutesPerDay

\* midnight passes
NextDay ==
    /\ Date(clock) < MaxDays
    /\ clock' = (Date(clock) + 1) * MinutesPerDay
    /\ UNCHANGED stderr
    /\ UNCHANGED sideVars
    /\ UNCHANGED <<loopVars, dbVars, timeline, commands, subs, control, reads>>

\* the signup and admin flows, outside the worker: a subscriber is deactivated
Deactivate(s) ==
    /\ subs[s].is_active
    /\ subs' = [subs EXCEPT ![s].is_active = FALSE]
    /\ UNCHANGED stderr
    /\ UNCHANGED sideVars
    /\ UNCHANGED <<loopVars, dbVars, clock, timeline, commands, control, reads>>

\* the subscriber's Subscription leaves the status "active"
SubscriptionEnds(s) ==
    /\ subs[s].subscription = "active"
    /\ subs' = [subs EXCEPT ![s].subscription = "expired"]
    /\ UNCHANGED stderr
    /\ UNCHANGED sideVars
    /\ UNCHANGED <<loopVars, dbVars, clock, timeline, commands, control, reads>>

\* the control-room address is set to NULL or to the empty string
ControlRoomCleared(s, address) ==
    /\ subs[s].matrix_room_id = Some("!control")
    /\ subs' = [subs EXCEPT ![s].matrix_room_id = address]
    /\ UNCHANGED stderr
    /\ UNCHANGED sideVars
    /\ UNCHANGED <<loopVars, dbVars, clock, timeline, commands, control, reads>>

RECURSIVE SumLen(_, _)
SumLen(f, rooms) ==
    IF rooms = <<>> THEN 0 ELSE Len(f[Head(rooms)]) + SumLen(f, Tail(rooms))

\* the events posted so far to watched rooms
Posts == SumLen(timeline, RoomOrder)

\* someone writes into a watched room
RoomPost(r) ==
    /\ RoomIsActive[r]
    /\ Posts < MaxPosts
    /\ timeline' = [timeline EXCEPT ![r] = <<[ts |-> clock, type |-> MessageType]>> \o @]
    /\ UNCHANGED stderr
    /\ UNCHANGED sideVars
    /\ UNCHANGED <<loopVars, dbVars, clock, commands, subs, control, reads>>

\* the subscriber writes into the control room
UserPost(s, body) ==
    /\ commands < MaxCommands
    /\ commands' = commands + 1
    /\ control' = [control EXCEPT ![s] = [body |-> body, sender |-> "@user"]]
    /\ UNCHANGED stderr
    /\ UNCHANGED sideVars
    /\ UNCHANGED <<loopVars, dbVars, clock, timeline, subs, reads>>

\* ------------------------------------------------------- command router
\* message_body = last_message.get("body", "").lower().strip(), as tokens
MessageBody(m) == [i \in 1..Len(m.body) |-> Lower(m.body[i])]

\* the COMMANDS patterns, tried in the order of the dict
parse_command(message_body) ==
    IF message_body = <<"help">> THEN [args |-> None, command |-> "help"]
    ELSE IF message_body = <<"rooms">> THEN [args |-> None, command |-> "rooms"]
    ELSE IF message_body = <<"summary", "all">> THEN [args |-> None, command |-> "summary_all"]
    ELSE IF Len(message_body) = 2 /\ message_body[1] = "summary"
        THEN [args |-> Some(message_body[2]), command |-> "summary_room"]
    ELSE IF message_body = <<"todo", "all">> THEN [args |-> None, command |-> "todo_all"]
    ELSE IF Len(message_body) = 2 /\ message_body[1] = "todo"
        THEN [args |-> Some(message_body[2]), command |-> "todo_room"]
    ELSE [args |-> None, command |-> ""]

looks_like_command_AnyText(message_body) == message_body # <<>>

looks_like_command(message_body) ==
    /\ message_body # <<>>
    /\ message_body[1] \in {"help", "rooms", "room", "summary", "todo", "task", "tasks"}

\* SubscriberRoom.objects.filter(subscriber=s, is_active=True)
ActiveRoomsOf(s) ==
    SelectSeqBy(RoomOrder, {r \in Rooms : RoomSubscriber[r] = s /\ RoomIsActive[r]})

ResolveRoom_AnySubscriber(s, room_code) ==
    SelectSeqBy(RoomOrder, {r \in Rooms : /\ Lower(RoomCode[r]) = Lower(room_code)
                                          /\ RoomIsActive[r]})

\* SubscriberRoom.objects.filter(subscriber=s, room_code__iexact=code, is_active=True)
ResolveRoom(s, room_code) ==
    SelectSeqBy(RoomOrder, {r \in Rooms : /\ RoomSubscriber[r] = s
                                          /\ Lower(RoomCode[r]) = Lower(room_code)
                                          /\ RoomIsActive[r]})

get_active_subscribers_Everyone == SelectSeqBy(SubscriberOrder, Subscribers)

\* Subscriber.objects.filter(id__in=active subscriptions, is_active=True,
\* matrix_room_id__isnull=False).exclude(matrix_room_id="")
get_active_subscribers ==
    SelectSeqBy(SubscriberOrder,
                {s \in Subscribers : /\ subs[s].subscription = "active"
                                     /\ subs[s].is_active
                                     /\ subs[s].matrix_room_id # None
                                     /\ subs[s].matrix_room_id # Some("")})

\* ------------------------------------------------------------- run_once
RunOnceExcept_Propagate(rest) == <<>>

\* except Exception in the loop of run_once: the loop goes on with the rest
RunOnceExcept(rest) == rest

\* the subscriber at the head of the loop, with a message to dispatch
Dispatching(s) ==
    /\ pc = "cycle"
    /\ queue # <<>>
    /\ s = Head(queue)

Inbound_AnySender(s) ==
    /\ Dispatching(s)
    /\ control[s] # NoMessage

\* the latest message is there and is not the bot's own
Inbound(s) ==
    /\ Dispatching(s)
    /\ control[s] # NoMessage
    /\ control[s].sender # FRIDAY_USER_ID

CommandOf(s) == parse_command(MessageBody(control[s]))

ReplyOnce_LatestStaysUsers(s, kind, fetched) ==
    \E ok \in BOOLEAN :
        /\ control' = control
        /\ reads' = {<<s, r>> : r \in fetched}
        /\ queue' = IF ok THEN Tail(queue) ELSE RunOnceExcept(Tail(queue))
        /\ served' = served \cup {s}
        /\ stderr' = IF ok THEN stderr ELSE <<"subscriber", s>>
        /\ UNCHANGED sideVars
        /\ UNCHANGED <<running, pc, enumerated, cur, roomQueue, targets, today, attempted,
                       summaries_sent, dbVars, envVars>>

\* a handler that sends one message and returns; a failed send raises
ReplyOnce(s, kind, fetched) ==
    \E ok \in BOOLEAN :
        /\ control' = IF ok THEN [control EXCEPT ![s] = FridayMessage(kind)] ELSE control
        /\ reads' = {<<s, r>> : r \in fetched}
        /\ queue' = IF ok THEN Tail(queue) ELSE RunOnceExcept(Tail(queue))
        /\ served' = served \cup {s}
        /\ stderr' = IF ok THEN stderr ELSE <<"subscriber", s>>
        /\ UNCHANGED sideVars
        /\ UNCHANGED <<running, pc, enumerated, cur, roomQueue, targets, today, attempted,
                       summaries_sent, dbVars, envVars>>

StartCycle_IgnoresStop ==
    /\ pc = "sleep"
    /\ enumerated' = Range(get_active_subscribers)
    /\ queue' = get_active_subscribers
    /\ served' = {}
    /\ pc' = IF get_active_subscribers = <<>> THEN "sleep" ELSE "cycle"
    /\ UNCHANGED stderr
    /\ UNCHANGED sideVars
    /\ UNCHANGED <<running, cur, roomQueue, targets, today, attempted, summaries_sent,
                   dbVars, envVars, control, reads>>

StartCycle ==
    /\ pc = "sleep"
    /\ running
    /\ enumerated' = Range(get_active_subscribers)
    /\ queue' = get_active_subscribers
    /\ served' = {}
    /\ pc' = IF get_active_subscribers = <<>> THEN "sleep" ELSE "cycle"
    /\ UNCHANGED stderr
    /\ UNCHANGED sideVars
    /\ UNCHANGED <<running, cur, roomQueue, targets, today, attempted, summaries_sent,
                   dbVars, envVars, control, reads>>

EndCycle ==
    /\ pc = "cycle"
    /\ queue = <<>>
    /\ pc' = "sleep"
    /\ reads' = {}
    /\ stderr' = <<>>
    /\ UNCHANGED sideVars
    /\ UNCHANGED <<running, queue, enumerated, served, cur, roomQueue, targets, today, attempted,
                   summaries_sent, dbVars, envVars, control>>

\* SIGTERM or SIGINT
Stop ==
    /\ running
    /\ pc # "stopped"
    /\ running' = FALSE
    /\ UNCHANGED stderr
    /\ UNCHANGED sideVars
    /\ UNCHANGED <<pc, queue, enumerated, served, cur, roomQueue, targets, today, attempted,
                   summaries_sent, dbVars, envVars, control, reads>>

WorkerExit ==
    /\ pc = "sleep"
    /\ ~running
    /\ pc' = "stopped"
    /\ UNCHANGED stderr
    /\ UNCHANGED sideVars
    /\ UNCHANGED <<running, queue, enumerated, served, cur, roomQueue, targets, today, attempted,
                   summaries_sent, dbVars, envVars, control, reads>>

\* get_last_message raises (the homeserver is unreachable)
GetLastMessageFails(s) ==
    /\ Dispatching(s)
    /\ reads' = {}
    /\ queue' = RunOnceExcept(Tail(queue))
    /\ served' = served \cup {s}
    /\ stderr' = <<"subscriber", s>>
    /\ UNCHANGED sideVars
    /\ UNCHANGED <<running, pc, enumerated, cur, roomQueue, targets, today, attempted,
                   summaries_sent, dbVars, envVars, control>>

\* no message, or the latest message is the bot's own
SkipSubscriber(s) ==
    /\ Dispatching(s)
    /\ control[s] = NoMessage \/ control[s].sender = FRIDAY_USER_ID
    /\ reads' = {}
    /\ queue' = Tail(queue)
    /\ served' = served \cup {s}
    /\ UNCHANGED stderr
    /\ UNCHANGED sideVars
    /\ UNCHANGED <<running, pc, enumerated, cur, roomQueue, targets, today, attempted,
                   summaries_sent, dbVars, envVars, control>>

\* not a command and it does not look like one
IgnoreChat(s) ==
    /\ Inbound(s)
    /\ CommandOf(s).command = ""
    /\ ~looks_like_command(MessageBody(control[s]))
    /\ reads' = {}
    /\ queue' = Tail(queue)
    /\ served' = served \cup {s}
    /\ UNCHANGED stderr
    /\ UNCHANGED sideVars
    /\ UNCHANGED <<running, pc, enumerated, cur, roomQueue, targets, today, attempted,
                   summaries_sent, dbVars, envVars, control>>

handle_unknown_command(s) ==
    /\ Inbound(s)
    /\ CommandOf(s).command = ""
    /\ looks_like_command(MessageBody(control[s]))
    /\ ReplyOnce(s, "guidance", {})

handle_help(s) ==
    /\ Inbound(s)
    /\ CommandOf(s).command = "help"
    /\ ReplyOnce(s, "help", {})

handle_rooms(s) ==
    /\ Inbound(s)
    /\ CommandOf(s).command = "rooms"
    /\ ReplyOnce(s, IF ActiveRoomsOf(s) = <<>> THEN "no_rooms" ELSE "rooms", {})

\* TodoList.objects.filter(room__subscriber=s, status=pending)
handle_todo_all(s) ==
    /\ Inbound(s)
    /\ CommandOf(s).command = "todo_all"
    /\ LET mine == {i \in 1..Len(todos) : /\ todos[i].room # None
                                          /\ RoomSubscriber[Val(todos[i].room)] = s
                                          /\ todos[i].status = STATUS_PENDING}
       IN ReplyOnce(s, IF mine = {} THEN "no_tasks" ELSE "tasks",
                    {Val(todos[i].room) : i \in mine})

handle_todo_room(s) ==
    /\ Inbound(s)
    /\ CommandOf(s).command = "todo_room"
    /\ LET found == ResolveRoom(s, Val(CommandOf(s).args))
       IN IF found = <<>>
          THEN ReplyOnce(s, "not_found", {})
          ELSE LET pending == {i \in 1..Len(todos) : /\ todos[i].room = Some(Head(found))
                                                     /\ todos[i].status = STATUS_PENDING}
               IN ReplyOnce(s, IF pending = {} THEN "no_tasks" ELSE "tasks",
                            {Head(found)})

\* -------------------------------------------------------------- cooldown
last_summary_sent_at_Created(s, rows) ==
    LET mine == {i \in 1..Len(rows) : RoomSubscriber[rows[i].room] = s}
    IN IF mine = {} THEN None
       ELSE Some(CHOOSE t \in {rows[i].created_at : i \in mine} :
                    \A i \in mine : rows[i].created_at <= t)

\* RoomSummary.objects.filter(room__subscriber=s, sent_at__isnull=False)
\*     .order_by("-sent_at").first(), its sent_at
last_summary_sent_at(s, rows) ==
    LET mine == {i \in 1..Len(rows) : /\ RoomSubscriber[rows[i].room] = s
                                      /\ rows[i].sent_at # None}
    IN IF mine = {} THEN None
       ELSE Some(CHOOSE t \in {Val(rows[i].sent_at) : i \in mine} :
                    \A i \in mine : Val(rows[i].sent_at) <= t)

InCooldown_Inclusive(sent_at, now) ==
    sent_at # None /\ now - Val(sent_at) <= SUMMARY_COOLDOWN_MINUTES

\* time_since_last < timedelta(minutes=SUMMARY_COOLDOWN_MINUTES)
InCooldown(sent_at, now) ==
    sent_at # None /\ now - Val(sent_at) < SUMMARY_COOLDOWN_MINUTES

\* True when it is OK to proceed
check_summary_cooldown(s) == ~InCooldown(last_summary_sent_at(s, summaries), clock)

\* process_summaries up to its loop
EnterProcessSummaries(s, rooms) ==
    /\ pc' = "rooms"
    /\ cur' = s
    /\ roomQueue' = rooms
    /\ targets' = Range(rooms)
    /\ today' = Date(clock)
    /\ attempted' = {}
    /\ summaries_sent' = 0
    /\ reads' = {}
    /\ UNCHANGED stderr
    /\ UNCHANGED sideVars
    /\ UNCHANGED <<running, queue, enumerated, served, dbVars, envVars, control>>

handle_summary_all(s) ==
    /\ Inbound(s)
    /\ CommandOf(s).command = "summary_all"
    /\ IF ActiveRoomsOf(s) = <<>>
       THEN ReplyOnce(s, "no_rooms", {})
       ELSE IF ~check_summary_cooldown(s)
       THEN ReplyOnce(s, "wait", {})
       ELSE EnterProcessSummaries(s, ActiveRoomsOf(s))

handle_summary_room(s) ==
    /\ Inbound(s)
    /\ CommandOf(s).command = "summary_room"
    /\ LET found == ResolveRoom(s, Val(CommandOf(s).args))
       IN IF found = <<>>
          THEN ReplyOnce(s, "not_found", {})
          ELSE IF ~check_summary_cooldown(s)
          THEN ReplyOnce(s, "wait", {})
          ELSE EnterProcessSummaries(s, <<Head(found)>>)

\* --------------------------------------------------------- process_room
\* datetime.isoformat() and datetime.fromisoformat()
isoformat(t) == <<"iso", t>>
fromisoformat(x) == x[2]


NewState(ps, r) ==
    [failure_reason |-> "",
     id |-> Cardinality(ps) + 1,
     last_message_synced_at |-> None,
     last_summarized_at |-> None,
     room |-> r,
     status |-> STATUS_IDLE]

get_or_create_state_AlwaysCreate(ps, r) == ps \cup {NewState(ps, r)}

\* ConversationProcessingState.objects.get_or_create(room=room, defaults=idle)
get_or_create_state(ps, r) ==
    IF \E q \in ps : q.room = r THEN ps ELSE ps \cup {NewState(ps, r)}

StateOf(ps, r) == CHOOSE q \in ps : q.room = r

Metadata_EndsAtOldest(state, messages) ==
    [from_timestamp |-> IF state.last_message_synced_at # None
                        THEN Some(isoformat(Val(state.last_message_synced_at))) ELSE None,
     message_count |-> Len(messages),
     to_timestamp |-> isoformat(messages[1].ts)]

\* the _metadata of build_llm_context_for_summary
Metadata(state, messages) ==
    [from_timestamp |-> IF state.last_message_synced_at # None
                        THEN Some(isoformat(Val(state.last_message_synced_at))) ELSE None,
     message_count |-> Len(messages),
     to_timestamp |-> isoformat(messages[Len(messages)].ts)]

TodoGet_ByIdOnly(rows, r, id) ==
    IF id \in 1..Len(rows) THEN Some(id) ELSE None

\* TodoList.objects.get(id=todo_id, room=room): the id, or None for DoesNotExist
TodoGet(rows, r, id) ==
    IF id \in 1..Len(rows) /\ rows[id].room = Some(r) THEN Some(id) ELSE None

ReconciledTodo_AnyStatus(todo, u) ==
    [todo EXCEPT !.status = IF u.status # "" THEN u.status ELSE @,
                 !.notes = IF u.notes # "" THEN Append(@, u.notes) ELSE @]

\* the status and the notes the loop body sets on the object it holds
ReconciledTodo(todo, u) ==
    [todo EXCEPT !.status = IF u.status \in {STATUS_DONE, STATUS_CANCELLED, STATUS_PENDING}
                            THEN u.status ELSE @,
                 !.notes = IF u.notes # "" THEN Append(@, u.notes) ELSE @]

RECURSIVE ApplyTodoUpdates(_, _, _)
\* the loop over result["todo_updates"]
ApplyTodoUpdates(rows, r, updates) ==
    IF updates = <<>> THEN rows
    ELSE LET u == Head(updates)
             got == TodoGet(rows, r, u.id)
         IN ApplyTodoUpdates(
                IF got # None
                THEN [rows EXCEPT ![Val(got)] = ReconciledTodo(@, u)]
                ELSE rows,
                r, Tail(updates))

RECURSIVE CreateTodos(_, _, _)
\* the loop over result["new_todos"]
CreateTodos(rows, r, new_todos) ==
    IF new_todos = <<>> THEN rows
    ELSE CreateTodos(
             IF Head(new_todos) # ""
             THEN Append(rows, [description |-> Head(new_todos),
                                notes |-> <<>>,
                                room |-> Some(r),
                                status |-> STATUS_PENDING])
             ELSE rows,
             r, Tail(new_todos))

\* RoomSummary.objects.create(...)
NewSummary(r, metadata, now) ==
    [created_at |-> now,
     from_timestamp |-> IF metadata.from_timestamp # None
                        THEN Some(fromisoformat(Val(metadata.from_timestamp))) ELSE None,
     message_count |-> metadata.message_count,
     room |-> r,
     send_failed_at |-> None,
     sent_at |-> None,
     to_timestamp |-> fromisoformat(metadata.to_timestamp)]

StateAfterRun_IncrementalRunClears(state, metadata, now) ==
    [state EXCEPT !.status = STATUS_IDLE,
                  !.last_message_synced_at =
                      IF metadata.from_timestamp = None
                      THEN Some(fromisoformat(metadata.to_timestamp)) ELSE None,
                  !.last_summarized_at = Some(now),
                  !.failure_reason = ""]

StateAfterRun_KeepsWatermark(state, metadata, now) ==
    [state EXCEPT !.status = STATUS_IDLE,
                  !.last_summarized_at = Some(now),
                  !.failure_reason = ""]

\* the update of the ConversationProcessingState that ends process_room
StateAfterRun(state, metadata, now) ==
    [state EXCEPT !.status = STATUS_IDLE,
                  !.last_message_synced_at = Some(fromisoformat(metadata.to_timestamp)),
                  !.last_summarized_at = Some(now),
                  !.failure_reason = ""]

IncrementDaily_StartsOver(rows, r, date) ==
    {d \in rows : ~(d.room = r /\ d.date = date)} \cup {[count |-> 1, date |-> date, room |-> r]}

\* get_and_increment_daily_count: get_or_create, then count = F("count") + 1
IncrementDaily(rows, r, date) ==
    IF \E d \in rows : d.room = r /\ d.date = date
    THEN {IF d.room = r /\ d.date = date THEN [d EXCEPT !.count = @ + 1] ELSE d : d \in rows}
    ELSE rows \cup {[count |-> 1, date |-> date, room |-> r]}

\* question_count: what get_and_increment_daily_count returns to the trailer
question_count(rows, r, date) ==
    LET after == IncrementDaily(rows, r, date)
    IN (CHOOSE d \in after : d.room = r /\ d.date = date).count

\* what the completion endpoint may answer
TodoUpdates ==
    {<<>>} \cup {<<[id |-> i, notes |-> "", status |-> st]>> :
                    i \in 1..(MaxTodos + 1), st \in {STATUS_DONE, "archived"}}
LLMResults ==
    {[new_todos |-> n, todo_updates |-> u] :
        u \in TodoUpdates,
        n \in {<<>>} \cup (IF Len(todos) < MaxTodos THEN {<<"task">>} ELSE {})}

\* ---------------------------------------------------- process_summaries
ProcessSummariesExcept_Propagate(rest) == <<>>

\* except Exception in the loop of process_summaries: on to the next room
ProcessSummariesExcept(rest) == rest

InRoomLoop(r) ==
    /\ pc = "rooms"
    /\ roomQueue # <<>>
    /\ r = Head(roomQueue)

\* the messages build_llm_context_for_summary fetches for the room
NewMessages(r) ==
    get_messages(timeline[r],
                 StateOf(get_or_create_state(pstates, r), r).last_message_synced_at)

\* room_service.get_messages raises
RoomFetchFails(r) ==
    /\ InRoomLoop(r)
    /\ pstates' = get_or_create_state(pstates, r)
    /\ roomQueue' = ProcessSummariesExcept(Tail(roomQueue))
    /\ attempted' = attempted \cup {r}
    /\ reads' = reads \cup {<<cur, r>>}
    /\ stderr' = <<"room", r>>
    /\ UNCHANGED sideVars
    /\ UNCHANGED <<running, pc, queue, enumerated, served, cur, targets, today, summaries_sent,
                   summaries, todos, daily, envVars, control>>

\* no message newer than the watermark: context is None, continue
RoomNothingNew(r) ==
    /\ InRoomLoop(r)
    /\ NewMessages(r) = <<>>
    /\ pstates' = get_or_create_state(pstates, r)
    /\ roomQueue' = Tail(roomQueue)
    /\ attempted' = attempted \cup {r}
    /\ reads' = reads \cup {<<cur, r>>}
    /\ UNCHANGED stderr
    /\ UNCHANGED sideVars
    /\ UNCHANGED <<running, pc, queue, enumerated, served, cur, targets, today, summaries_sent,
                   summaries, todos, daily, envVars, control>>

\* LLMService.process raises inside process_room (requests error, bad payload)
RoomLLMFails(r) ==
    /\ InRoomLoop(r)
    /\ NewMessages(r) # <<>>
    /\ pstates' = get_or_create_state(pstates, r)
    /\ roomQueue' = ProcessSummariesExcept(Tail(roomQueue))
    /\ attempted' = attempted \cup {r}
    /\ reads' = reads \cup {<<cur, r>>}
    /\ stderr' = <<"room", r>>
    /\ UNCHANGED sideVars
    /\ UNCHANGED <<running, pc, queue, enumerated, served, cur, targets, today, summaries_sent,
                   summaries, todos, daily, envVars, control>>

RoomReconcileFails_CountsTheRun(r, result) ==
    /\ InRoomLoop(r)
    /\ NewMessages(r) # <<>>
    /\ pstates' = get_or_create_state(pstates, r)
    /\ todos' = CreateTodos(ApplyTodoUpdates(todos, r, result.todo_updates),
                            r, result.new_todos)
    /\ daily' = IncrementDaily(daily, r, today)
    /\ roomQueue' = ProcessSummariesExcept(Tail(roomQueue))
    /\ attempted' = attempted \cup {r}
    /\ reads' = reads \cup {<<cur, r>>}
    /\ stderr' = <<"room", r>>
    /\ UNCHANGED sideVars
    /\ UNCHANGED <<running, pc, queue, enumerated, served, cur, targets, today, summaries_sent,
                   summaries, envVars, control>>

\* process_room raises after LLMService.process returned: in its loops over
\* todo_updates and new_todos, of which the items of result were applied, or
\* in RoomSummary.objects.create
RoomReconcileFails(r, result) ==
    /\ InRoomLoop(r)
    /\ NewMessages(r) # <<>>
    /\ pstates' = get_or_create_state(pstates, r)
    /\ todos' = CreateTodos(ApplyTodoUpdates(todos, r, result.todo_updates),
                            r, result.new_todos)
    /\ roomQueue' = ProcessSummariesExcept(Tail(roomQueue))
    /\ attempted' = attempted \cup {r}
    /\ reads' = reads \cup {<<cur, r>>}
    /\ stderr' = <<"room", r>>
    /\ UNCHANGED sideVars
    /\ UNCHANGED <<running, pc, queue, enumerated, served, cur, targets, today, summaries_sent,
                   summaries, daily, envVars, control>>

\* process_room returns; the daily count is incremented; the reply is sent or
\* send_message raises
RoomSummarized(r, result, sendOk) ==
    /\ InRoomLoop(r)
    /\ NewMessages(r) # <<>>
    /\ LET ps == get_or_create_state(pstates, r)
           state == StateOf(ps, r)
           metadata == Metadata(state, NewMessages(r))
           summary == NewSummary(r, metadata, clock)
       IN /\ todos' = CreateTodos(ApplyTodoUpdates(todos, r, result.todo_updates),
                                  r, result.new_todos)
          /\ pstates' = (ps \ {state}) \cup {StateAfterRun(state, metadata, clock)}
          /\ summaries' = Append(summaries,
                                 IF sendOk THEN [summary EXCEPT !.sent_at = Some(clock)]
                                 ELSE summary)
    /\ daily' = IncrementDaily(daily, r, today)
    /\ summaries_sent' = IF sendOk THEN summaries_sent + 1 ELSE summaries_sent
    /\ control' = IF sendOk THEN [control EXCEPT ![cur] = FridayMessage("summary")] ELSE control
    /\ reads' = reads \cup {<<cur, r>>}
    /\ roomQueue' = IF sendOk THEN Tail(roomQueue) ELSE ProcessSummariesExcept(Tail(roomQueue))
    /\ attempted' = attempted \cup {r}
    /\ stderr' = IF sendOk THEN stderr ELSE <<"room", r>>
    /\ UNCHANGED sideVars
    /\ UNCHANGED <<running, pc, queue, enumerated, served, cur, targets, today, envVars>>

FinishSummaries_AlwaysNotice(ok) ==
    /\ pc = "rooms"
    /\ roomQueue = <<>>
    /\ control' = IF ok THEN [control EXCEPT ![cur] = FridayMessage("nothing")] ELSE control
    /\ queue' = IF ok THEN Tail(queue) ELSE RunOnceExcept(Tail(queue))
    /\ served' = served \cup {cur}
    /\ pc' = "cycle"
    /\ cur' = ""
    /\ stderr' = IF ok THEN stderr ELSE <<"subscriber", cur>>
    /\ UNCHANGED sideVars
    /\ UNCHANGED <<running, enumerated, roomQueue, targets, today, attempted, summaries_sent,
                   dbVars, envVars, reads>>

\* after the loop: the fallback notice when nothing was sent, then return
FinishSummaries(ok) ==
    /\ pc = "rooms"
    /\ roomQueue = <<>>
    /\ summaries_sent > 0 => ok
    /\ control' = IF summaries_sent = 0 /\ ok
                  THEN [control EXCEPT ![cur] = FridayMessage("nothing")] ELSE control
    /\ queue' = IF ok THEN Tail(queue) ELSE RunOnceExcept(Tail(queue))
    /\ served' = served \cup {cur}
    /\ pc' = "cycle"
    /\ cur' = ""
    /\ stderr' = IF ok THEN stderr ELSE <<"subscriber", cur>>
    /\ UNCHANGED sideVars
    /\ UNCHANGED <<running, enumerated, roomQueue, targets, today, attempted, summaries_sent,
                   dbVars, envVars, reads>>

\* ------------------------- process_room's task phase and the todo API
\* An item of result["todo_updates"]: [id, status, notes], or an item that is
\* no JSON object, on which update.get raises.
Malformed == [malformed |-> TRUE]
RcUpdateValues ==
    {[id |-> i, notes |-> x[2], status |-> x[1]] :
        i \in 1..(MaxTasks + 1),
        x \in {<<STATUS_CANCELLED, "">>, <<"archived", "">>, <<"", "n">>}}
    \cup {Malformed}
RcUpdateLists ==
    UNION {[1..n -> RcUpdateValues] : n \in 0..MaxUpdates}
RcResults ==
    [new_todos : {<<>>, <<"task">>}, todo_updates : RcUpdateLists]

\* The text of a completion, as tokens: prose, a stray brace, or one
\* well-formed JSON object with its value.
Prose == [tok |-> "prose"]
OpenBrace == [tok |-> "{"]
CloseBrace == [tok |-> "}"]
JsonObject(value) == [tok |-> "object", value |-> value]

\* the object a model that follows the prompt writes for r
ModelResult(r) ==
    [needs_more_information |-> FALSE,
     new_todos |-> r.new_todos,
     reply |-> Some("reply"),
     summary |-> <<"model">>,
     todo_updates |-> r.todo_updates]

TaskOnlyResults == {r \in RcResults : r.todo_updates = <<>>}

Completions ==
    { <<>>, <<Prose>>, <<OpenBrace, Prose>>, <<Prose, CloseBrace>>, <<CloseBrace, OpenBrace>>,
      <<OpenBrace, Prose, CloseBrace>> }
    \cup {<<JsonObject(ModelResult(r))>> : r \in RcResults}
    \cup {<<Prose, JsonObject(ModelResult(r)), Prose>> : r \in TaskOnlyResults}
    \cup {<<JsonObject(ModelResult(r)), Prose, JsonObject(ModelResult(r))>> :
              r \in TaskOnlyResults}

\* content.find("{"), 0 when it finds none
FindOpen(content) ==
    LET at == {i \in 1..Len(content) : content[i].tok \in {"{", "object"}}
    IN IF at = {} THEN 0 ELSE CHOOSE i \in at : \A j \in at : i <= j

\* content.rfind("}"), 0 when it finds none
FindClose(content) ==
    LET at == {i \in 1..Len(content) : content[i].tok \in {"}", "object"}}
    IN IF at = {} THEN 0 ELSE CHOOSE i \in at : \A j \in at : i >= j

\* the result LLMService.process returns when no JSON object can be parsed
Degraded(content) ==
    [needs_more_information |-> FALSE,
     new_todos |-> <<>>,
     reply |-> None,
     summary |-> content,
     todo_updates |-> <<>>]

\* LLMService.process from the content of the completion on: json.loads of
\* the text from the first "{" to the last "}", the degraded result otherwise
process(content) ==
    LET start_idx == FindOpen(content)
        end_idx == FindClose(content)
        json_str == SubSeq(content, start_idx, end_idx)
    IN IF start_idx # 0 /\ end_idx >= start_idx /\ Len(json_str) = 1
          /\ json_str[1].tok = "object"
       THEN json_str[1].value
       ELSE Degraded(content)

\* result.get("todo_updates", []) and result.get("new_todos", [])
TaskFields(result) == [new_todos |-> result.new_todos, todo_updates |-> result.todo_updates]

RcInit ==
    /\ rcPc = "idle"
    /\ rcRoom = ""
    /\ rcResult = [new_todos |-> <<>>, todo_updates |-> <<>>]
    /\ rcUpdates = <<>>
    /\ rcNew = <<>>
    /\ rcTodo = None
    /\ rcStart = <<>>
    /\ rcRuns = 0
    /\ apiPc = "idle"
    /\ apiReq = [id |-> 0, status |-> ""]
    /\ apiCalls = 0

\* where process_room goes on after a loop iteration
RcNextPc(updates, new_todos) ==
    IF updates # <<>> THEN "updates" ELSE IF new_todos # <<>> THEN "new" ELSE "summary"

AfterDoesNotExist_Propagate == "raised"

\* except TodoList.DoesNotExist: pass
AfterDoesNotExist == "caught"

\* POST /todos: TodoList.objects.create(description, room, notes)
create_todo(room) ==
    /\ Len(todos) < MaxTasks
    /\ todos' = Append(todos, [description |-> "manual",
                               notes |-> <<>>,
                               room |-> room,
                               status |-> STATUS_PENDING])
    /\ UNCHANGED <<rcVars, apiVars, cntVars, aliasVars, fetchVars>>
    /\ UNCHANGED <<loopVars, pstates, summaries, daily, envVars, control, reads, stderr>>

\* PATCH /todos/{id}/status up to the save: get_object_or_404, then the
\* check of payload.status
ApiLoad(id, status) ==
    /\ apiPc # "loaded"
    /\ apiCalls < MaxManual
    /\ apiCalls' = apiCalls + 1
    /\ apiReq' = [id |-> id, status |-> status]
    /\ apiPc' = IF id \notin 1..Len(todos) THEN "404"
                ELSE IF status \notin {STATUS_PENDING, STATUS_DONE, STATUS_CANCELLED} THEN "400"
                ELSE "loaded"
    /\ UNCHANGED <<rcVars, cntVars, aliasVars, fetchVars, mainVars>>

\* todo.save(update_fields=["status", "updated_at"])
ApiSave ==
    /\ apiPc = "loaded"
    /\ todos' = [todos EXCEPT ![apiReq.id].status = apiReq.status]
    /\ apiPc' = "ok"
    /\ UNCHANGED <<apiReq, apiCalls, rcVars, cntVars, aliasVars, fetchVars>>
    /\ UNCHANGED <<loopVars, pstates, summaries, daily, envVars, control, reads, stderr>>

\* process_room has the LLM result and enters the loop over todo_updates
RcBegin(r, result) ==
    /\ rcPc \in {"idle", "done", "raised"}
    /\ rcRuns < MaxRuns
    /\ rcRuns' = rcRuns + 1
    /\ rcRoom' = r
    /\ rcResult' = result
    /\ rcUpdates' = result.todo_updates
    /\ rcNew' = result.new_todos
    /\ rcTodo' = None
    /\ rcStart' = todos
    /\ rcPc' = RcNextPc(result.todo_updates, result.new_todos)
    /\ UNCHANGED <<apiVars, cntVars, aliasVars, fetchVars, mainVars>>

\* one iteration up to todo.save(): update.get, TodoList.objects.get
RcLoad ==
    /\ rcPc = "updates"
    /\ LET u == Head(rcUpdates)
       IN IF u = Malformed
          THEN /\ rcPc' = "raised"
               /\ UNCHANGED <<rcUpdates, rcTodo>>
          ELSE LET got == TodoGet(todos, rcRoom, u.id)
               IN IF got # None
                  THEN /\ rcTodo' = Some(<<Val(got), todos[Val(got)]>>)
                       /\ rcPc' = "loaded"
                       /\ UNCHANGED rcUpdates
                  ELSE IF AfterDoesNotExist = "caught"
                  THEN /\ rcUpdates' = Tail(rcUpdates)
                       /\ rcPc' = RcNextPc(Tail(rcUpdates), rcNew)
                       /\ UNCHANGED rcTodo
                  ELSE /\ rcPc' = "raised"
                       /\ UNCHANGED <<rcUpdates, rcTodo>>
    /\ UNCHANGED <<rcRoom, rcResult, rcNew, rcStart, rcRuns>>
    /\ UNCHANGED <<apiVars, cntVars, aliasVars, fetchVars, mainVars>>

\* todo.save(): every field of the object the loop holds is written
RcSave ==
    /\ rcPc = "loaded"
    /\ LET id == Val(rcTodo)[1]
           todo == Val(rcTodo)[2]
       IN todos' = [todos EXCEPT ![id] = ReconciledTodo(todo, Head(rcUpdates))]
    /\ rcUpdates' = Tail(rcUpdates)
    /\ rcTodo' = None
    /\ rcPc' = RcNextPc(Tail(rcUpdates), rcNew)
    /\ UNCHANGED <<rcRoom, rcResult, rcNew, rcStart, rcRuns>>
    /\ UNCHANGED <<apiVars, cntVars, aliasVars, fetchVars>>
    /\ UNCHANGED <<loopVars, pstates, summaries, daily, envVars, control, reads, stderr>>

\* one iteration of the loop over new_todos
RcCreate ==
    /\ rcPc = "new"
    /\ todos' = CreateTodos(todos, rcRoom, <<Head(rcNew)>>)
    /\ rcNew' = Tail(rcNew)
    /\ rcPc' = RcNextPc(<<>>, Tail(rcNew))
    /\ UNCHANGED <<rcRoom, rcResult, rcUpdates, rcTodo, rcStart, rcRuns>>
    /\ UNCHANGED <<apiVars, cntVars, aliasVars, fetchVars>>
    /\ UNCHANGED <<loopVars, pstates, summaries, daily, envVars, control, reads, stderr>>

\* RoomSummary.objects.create and state.save: they return, or the database
\* raises
RcStoreSummary(ok) ==
    /\ rcPc = "summary"
    /\ rcPc' = IF ok THEN "done" ELSE "raised"
    /\ UNCHANGED <<rcRoom, rcResult, rcUpdates, rcNew, rcTodo, rcStart, rcRuns>>
    /\ UNCHANGED <<apiVars, cntVars, aliasVars, fetchVars, mainVars>>

\* ------------------------ concurrent get_and_increment_daily_count calls
Workers == 1..NumWorkers

CntInit ==
    /\ cntPc = [w \in Workers |-> "idle"]
    /\ cntRoom = [w \in Workers |-> ""]
    /\ cntLocal = [w \in Workers |-> 0]

DailyRow(rows, r, date) == CHOOSE d \in rows : d.room = r /\ d.date = date
DailyExists(rows, r, date) == \E d \in rows : d.room = r /\ d.date = date

DailyIncrement_ReadModifyWrite(rows, r, date, local) ==
    {IF d.room = r /\ d.date = date THEN [d EXCEPT !.count = local + 1] ELSE d : d \in rows}

\* RoomDailySummaryCount.objects.filter(pk=daily_count.pk).update(count=F("count") + 1)
DailyIncrementInPlace(rows, r, date, local) ==
    {IF d.room = r /\ d.date = date THEN [d EXCEPT !.count = @ + 1] ELSE d : d \in rows}

\* get_or_create, its first query: the row is there, or it is not
CntGet(w, r) ==
    /\ cntPc[w] = "idle"
    /\ cntRoom' = [cntRoom EXCEPT ![w] = r]
    /\ IF DailyExists(daily, r, Date(clock))
       THEN /\ cntPc' = [cntPc EXCEPT ![w] = "update"]
            /\ cntLocal' = [cntLocal EXCEPT ![w] = DailyRow(daily, r, Date(clock)).count]
       ELSE /\ cntPc' = [cntPc EXCEPT ![w] = "create"]
            /\ UNCHANGED cntLocal
    /\ UNCHANGED <<rcVars, apiVars, fetchVars, aliasVars, mainVars>>

\* get_or_create, its insert with count=0: unique_together (room, date) lets
\* one insert through, the loser gets IntegrityError and reads the row
CntCreate(w) ==
    /\ cntPc[w] = "create"
    /\ IF DailyExists(daily, cntRoom[w], Date(clock))
       THEN /\ cntLocal' = [cntLocal EXCEPT ![w] = DailyRow(daily, cntRoom[w], Date(clock)).count]
            /\ UNCHANGED daily
       ELSE /\ daily' = daily \cup {[count |-> 0, date |-> Date(clock), room |-> cntRoom[w]]}
            /\ cntLocal' = [cntLocal EXCEPT ![w] = 0]
    /\ cntPc' = [cntPc EXCEPT ![w] = "update"]
    /\ UNCHANGED <<cntRoom, rcVars, apiVars, fetchVars, aliasVars>>
    /\ UNCHANGED <<loopVars, pstates, summaries, todos, envVars, control, reads, stderr>>

\* the UPDATE statement
CntUpdate(w) ==
    /\ cntPc[w] = "update"
    /\ daily' = DailyIncrementInPlace(daily, cntRoom[w], Date(clock), cntLocal[w])
    /\ cntPc' = [cntPc EXCEPT ![w] = "refresh"]
    /\ UNCHANGED <<cntRoom, cntLocal, rcVars, apiVars, fetchVars, aliasVars>>
    /\ UNCHANGED <<loopVars, pstates, summaries, todos, envVars, control, reads, stderr>>

\* daily_count.refresh_from_db(); return daily_count.count
CntRefresh(w) ==
    /\ cntPc[w] = "refresh"
    /\ cntLocal' = [cntLocal EXCEPT ![w] = DailyRow(daily, cntRoom[w], Date(clock)).count]
    /\ cntPc' = [cntPc EXCEPT ![w] = "done"]
    /\ UNCHANGED <<cntRoom, rcVars, apiVars, fetchVars, aliasVars, mainVars>>

\* ------------------------------------------------------ room aliases
\* ROOM_CODE_ALPHABET, ROOM_CODE_LENGTH and the range(10) of the loop, scaled
\* down: two characters, codes of one character, two attempts
ROOM_CODE_ALPHABET == {"a", "b"}
ROOM_CODE_LENGTH == 1
Attempts == 2

\* "".join(secrets.choice(ROOM_CODE_ALPHABET) for _ in range(ROOM_CODE_LENGTH))
RandomCodes == [1..ROOM_CODE_LENGTH -> ROOM_CODE_ALPHABET]

AliasInit ==
    /\ aliasRows = <<>>
    /\ genPc = "idle"
    /\ genSub = ""
    /\ genAttempts = 0
    /\ genCode = <<>>

\* SubscriberRoom.objects.filter(subscriber=s, room_code=code).exists()
CodeExists(s, code) ==
    \E i \in 1..Len(aliasRows) :
        aliasRows[i].subscriber = s /\ aliasRows[i].room_code = code

\* save() of a new room of subscriber s: room_code is empty
AliasBegin(s) ==
    /\ genPc \in {"idle", "stored", "integrity_error"}
    /\ Len(aliasRows) < MaxAliases
    /\ genPc' = "try"
    /\ genSub' = s
    /\ genAttempts' = 0
    /\ genCode' = <<>>
    /\ UNCHANGED aliasRows
    /\ UNCHANGED <<fetchVars, rcVars, apiVars, cntVars, mainVars>>

\* one iteration of the loop of _generate_unique_code
AliasTry(code) ==
    /\ genPc = "try"
    /\ genAttempts' = genAttempts + 1
    /\ genCode' = code
    /\ genPc' = IF ~CodeExists(genSub, code) THEN "save"
                ELSE IF genAttempts + 1 = Attempts THEN "fallback"
                ELSE "try"
    /\ UNCHANGED <<aliasRows, genSub>>
    /\ UNCHANGED <<fetchVars, rcVars, apiVars, cntVars, mainVars>>

\* return code + secrets.choice(ROOM_CODE_ALPHABET)
AliasFallback(ch) ==
    /\ genPc = "fallback"
    /\ genCode' = Append(genCode, ch)
    /\ genPc' = "save"
    /\ UNCHANGED <<aliasRows, genSub, genAttempts>>
    /\ UNCHANGED <<fetchVars, rcVars, apiVars, cntVars, mainVars>>

\* super().save(): the INSERT under unique_subscriber_room_code
AliasSave ==
    /\ genPc = "save"
    /\ IF CodeExists(genSub, genCode)
       THEN genPc' = "integrity_error" /\ UNCHANGED aliasRows
       ELSE /\ genPc' = "stored"
            /\ aliasRows' = Append(aliasRows, [room_code |-> genCode, subscriber |-> genSub])
    /\ UNCHANGED <<genSub, genAttempts, genCode>>
    /\ UNCHANGED <<fetchVars, rcVars, apiVars, cntVars, mainVars>>

\* ------------------------------------------------------- specifications
Cycle ==
    \/ StartCycle
    \/ EndCycle
    \/ \E s \in Subscribers :
        \/ GetLastMessageFails(s)
        \/ SkipSubscriber(s)

Router ==
    \E s \in Subscribers :
        \/ IgnoreChat(s)
        \/ handle_unknown_command(s)
        \/ handle_help(s)
        \/ handle_rooms(s)
        \/ handle_todo_all(s)

Summarizer ==
    \/ \E s \in Subscribers :
        \/ handle_todo_room(s)
        \/ handle_summary_all(s)
        \/ handle_summary_room(s)
    \/ \E r \in Rooms :
        \/ RoomFetchFails(r)
        \/ RoomNothingNew(r)
        \/ RoomLLMFails(r)
        \/ \E result \in LLMResults, sendOk \in BOOLEAN : RoomSummarized(r, result, sendOk)
    \/ \E ok \in BOOLEAN : FinishSummaries(ok)

Shutdown ==
    \/ Stop
    \/ WorkerExit

Init == MainInit /\ FetchInit /\ RcInit /\ CntInit /\ AliasInit

\* the whole worker, every command and every signal
Next ==
    /\ \/ Cycle
       \/ Router
       \/ Summarizer
       \/ Shutdown
       \/ Tick
       \/ \E r \in Rooms : RoomPost(r)
       \/ \E s \in Subscribers, body \in UserBodies : UserPost(s, body)

Spec == Init /\ [][Next]_vars

\* the worker serving subscribers who send summary and todo commands by alias
SummaryBodies ==
    { <<"summary", "all">>, <<"summary", "AAAA">>, <<"summary", "bbbb">>, <<"todo", "aaaa">> }

SummaryNext ==
    \/ Cycle
    \/ Summarizer
    \/ Tick
    \/ \E r \in Rooms : RoomPost(r)
    \/ \E s \in Subscribers, body \in SummaryBodies : UserPost(s, body)

SpecSummary == Init /\ [][SummaryNext]_vars

\* get_messages on its own, over every timeline within the bounds
FetchNext ==
    \/ \E e \in FetchEvents : FetchArrive(e)
    \/ \E since \in {None} \cup {Some(t) : t \in 0..MaxFetchTs} : FetchCall(since)

SpecFetch == Init /\ [][FetchNext]_vars

\* the command router serving subscribers who chat and type commands, with
\* tasks entered through the todo API
RouterBodies ==
    { <<"help">>, <<"rooms">>, <<"todo", "all">>, <<"todo", "aaaa">>, <<"summary">>,
      <<"tasks", "please">>, <<"hello">>, <<"hello", "help">> }

RouterNext ==
    \/ Cycle
    \/ Router
    \/ \E s \in Subscribers : handle_todo_room(s)
    \/ \E s \in Subscribers, body \in RouterBodies : UserPost(s, body)
    \/ \E room \in {None} \cup {Some(r) : r \in Rooms} : create_todo(room)

SpecRouter == Init /\ [][RouterNext]_vars

\* one process_room run next to the todo API
ReconcileNext ==
    \/ \E room \in {None} \cup {Some(r) : r \in {"r1", "r2"}} : create_todo(room)
    \/ \E id \in 1..MaxTasks, status \in {STATUS_DONE, "archived"} : ApiLoad(id, status)
    \/ ApiSave
    \/ \E content \in Completions : RcBegin("r1", TaskFields(process(content)))
    \/ RcLoad
    \/ RcSave
    \/ RcCreate
    \/ \E ok \in BOOLEAN : RcStoreSummary(ok)

SpecReconcile == Init /\ [][ReconcileNext]_vars

\* the summarization runs of a parallelized orchestrator, each at its call of
\* get_and_increment_daily_count
CounterNext ==
    \E w \in Workers :
        \/ \E r \in {"r1", "r2"} : CntGet(w, r)
        \/ CntCreate(w)
        \/ CntUpdate(w)
        \/ CntRefresh(w)

SpecCounter == Init /\ [][CounterNext]_vars

\* the worker serving "summary all" commands over the change of the date
DailyNext ==
    \/ Cycle
    \/ \E s \in Subscribers : handle_summary_all(s)
    \/ \E r \in Rooms :
        \/ RoomFetchFails(r)
        \/ RoomNothingNew(r)
        \/ RoomLLMFails(r)
        \/ \E result \in LLMResults, sendOk \in BOOLEAN : RoomSummarized(r, result, sendOk)
    \/ \E ok \in BOOLEAN : FinishSummaries(ok)
    \/ NextDay
    \/ \E r \in Rooms : RoomPost(r)
    \/ \E s \in Subscribers : UserPost(s, <<"summary", "all">>)

SpecDaily == Init /\ [][DailyNext]_vars

\* the steps of the worker's own thread while it serves "summary all"
WorkerSteps ==
    \/ Cycle
    \/ \E s \in Subscribers : handle_summary_all(s)
    \/ \E r \in Rooms :
        \/ RoomFetchFails(r)
        \/ RoomNothingNew(r)
        \/ RoomLLMFails(r)
        \/ \E result \in LLMResults, sendOk \in BOOLEAN : RoomSummarized(r, result, sendOk)
    \/ \E ok \in BOOLEAN : FinishSummaries(ok)
    \/ WorkerExit

\* the worker serving "summary all" commands until SIGTERM or SIGINT
StopNext ==
    \/ WorkerSteps
    \/ Stop
    \/ \E r \in Rooms : RoomPost(r)
    \/ \E s \in Subscribers : UserPost(s, <<"summary", "all">>)

\* every call the worker makes returns, so its thread keeps taking steps
SpecStop == Init /\ [][StopNext]_vars /\ WF_vars(WorkerSteps)

\* the worker serving subscribers who type help or chat while accounts are
\* deactivated, subscriptions end and control rooms are unset
AccountNext ==
    \/ Cycle
    \/ \E s \in Subscribers :
        \/ IgnoreChat(s)
        \/ handle_help(s)
    \/ \E s \in Subscribers, body \in {<<"help">>, <<"hello">>} : UserPost(s, body)
    \/ \E s \in Subscribers :
        \/ Deactivate(s)
        \/ SubscriptionEnds(s)
        \/ \E address \in {None, Some("")} : ControlRoomCleared(s, address)

SpecAccount == Init /\ [][AccountNext]_vars

\* rooms being added for the subscribers, each saved without a room_code
AliasNext ==
    \/ \E s \in Subscribers : AliasBegin(s)
    \/ \E code \in RandomCodes : AliasTry(code)
    \/ \E ch \in ROOM_CODE_ALPHABET : AliasFallback(ch)
    \/ AliasSave

SpecAlias == Init /\ [][AliasNext]_vars

\* the worker serving "summary all" commands, with runs that raise after the
\* model's reply has come
RetryNext ==
    \/ Cycle
    \/ \E s \in Subscribers : handle_summary_all(s)
    \/ \E r \in Rooms :
        \/ RoomFetchFails(r)
        \/ RoomNothingNew(r)
        \/ RoomLLMFails(r)
        \/ \E result \in LLMResults : RoomReconcileFails(r, result)
        \/ \E result \in LLMResults, sendOk \in BOOLEAN : RoomSummarized(r, result, sendOk)
    \/ \E ok \in BOOLEAN : FinishSummaries(ok)
    \/ Tick
    \/ \E r \in Rooms : RoomPost(r)
    \/ \E s \in Subscribers : UserPost(s, <<"summary", "all">>)

SpecRetry == Init /\ [][RetryNext]_vars

\* --------------------------------------------------------------- claims

\* C9: get_messages(room, from_timestamp=T) returns no message with a
\* timestamp <= T, returns only m.room.message events, and returns them in
\* non-decreasing timestamp order although the page arrives newest first.
C9_FetchAfterCutoffOldestFirst ==
    fetchCalls = 1 =>
        /\ \A i \in 1..Len(fetchOut) :
              /\ fetchOut[i].type = MessageType
              /\ fetchSince # None => fetchOut[i].ts > Val(fetchSince)
        /\ \A i \in 1..Len(fetchOut) - 1 : fetchOut[i].ts <= fetchOut[i + 1].ts

\* a call with a cutoff that drops an older message of the page and returns
\* two messages of different age, the older one first
C9_Witness ==
    /\ fetchCalls = 1
    /\ fetchSince # None
    /\ Len(fetchOut) = 2
    /\ fetchOut[1].ts < fetchOut[2].ts
    /\ NewestFirst(fetchTimeline)
    /\ \E i \in 1..Len(fetchTimeline) :
          /\ fetchTimeline[i].type = MessageType
          /\ fetchTimeline[i].ts <= Val(fetchSince)

\* C10: the fetch used for summarization returns every message of the room
\* newer than the watermark, also when they do not fit in one page.
C10_EveryNewerMessageReturned ==
    fetchCalls = 1 => Len(fetchOut) = Cardinality(NewerThan(fetchTimeline, fetchSince))

Owned(s) == {r \in Rooms : RoomSubscriber[r] = s}

\* a Summary of one of s's rooms was delivered less than 15 minutes ago
RecentlyDelivered(s) ==
    \E i \in 1..Len(summaries) :
        /\ summaries[i].room \in Owned(s)
        /\ summaries[i].sent_at # None
        /\ clock - Val(summaries[i].sent_at) < SUMMARY_COOLDOWN_MINUTES

EverDelivered(s) ==
    \E i \in 1..Len(summaries) :
        summaries[i].room \in Owned(s) /\ summaries[i].sent_at # None

\* a Summary of one of s's rooms was created less than 15 minutes ago and
\* has no sent timestamp
RecentlyCreatedUnsent(s) ==
    \E i \in 1..Len(summaries) :
        /\ summaries[i].room \in Owned(s)
        /\ summaries[i].sent_at = None
        /\ clock - summaries[i].created_at < SUMMARY_COOLDOWN_MINUTES

SummaryCommand(s) == handle_summary_all(s) \/ handle_summary_room(s)

\* the command names at least one active room of the subscriber
TargetResolves(s) ==
    \/ CommandOf(s).command = "summary_all" /\ \E r \in Owned(s) : RoomIsActive[r]
    \/ /\ CommandOf(s).command = "summary_room"
       /\ \E r \in Owned(s) : /\ RoomIsActive[r]
                              /\ Lower(RoomCode[r]) = Lower(Val(CommandOf(s).args))

Refused(s) ==
    /\ control'[s] \in {control[s], FridayMessage("wait")}
    /\ UNCHANGED dbVars
    /\ pc' = "cycle"

\* C1 as stated: every summary command handled less than 15 minutes after the
\* subscriber's latest delivered Summary gets only the wait reply and changes
\* no record; handled 15 minutes or more after it, it proceeds to processing.
C1_AsStated ==
    [][\A s \in Subscribers :
          SummaryCommand(s) =>
              /\ RecentlyDelivered(s) => Refused(s)
              /\ EverDelivered(s) /\ ~RecentlyDelivered(s) => pc' = "rooms"]_vars

\* C1 amended: the same for summary commands whose target resolves to at
\* least one active room of the subscriber (summary all with an active room,
\* summary <alias> with an alias of an active room of the subscriber).
C1_CooldownGate ==
    [][\A s \in Subscribers :
          SummaryCommand(s) /\ TargetResolves(s) =>
              /\ RecentlyDelivered(s) => Refused(s)
              /\ EverDelivered(s) /\ ~RecentlyDelivered(s) =>
                    pc' = "rooms" /\ cur' = s /\ targets' # {}]_vars

\* a subscriber whose latest delivered Summary is younger than 15 minutes has
\* the wait reply as the latest message of the control room
C1_Witness ==
    \E s \in Subscribers : control[s] = FridayMessage("wait") /\ RecentlyDelivered(s)

\* C2: a Summary that was created and never marked as sent causes no cooldown
\* refusal, however recent: with no Summary delivered in the last 15 minutes
\* the summary command gets no wait reply and, its target resolving, proceeds.
C2_UnsentSummaryNeverBlocks ==
    [][\A s \in Subscribers :
          SummaryCommand(s) /\ RecentlyCreatedUnsent(s) /\ ~RecentlyDelivered(s) =>
              /\ control'[s] # FridayMessage("wait")
              /\ TargetResolves(s) => pc' = "rooms"]_vars

\* process_summaries has just been entered by a subscriber with a fresh unsent
\* Summary and no recent delivered one
C2_Witness ==
    /\ pc = "rooms"
    /\ attempted = {}
    /\ RecentlyCreatedUnsent(cur)
    /\ ~RecentlyDelivered(cur)

\* the records of room r
RowsOf(r) ==
    <<{q \in pstates : q.room = r},
      SelectSeq(summaries, LAMBDA x : x.room = r),
      [i \in {j \in 1..Len(todos) : todos[j].room = Some(r)} |-> todos[i]],
      {d \in daily : d.room = r}>>

\* C3: a command of subscriber S reads and processes only active rooms owned
\* by S, also when another subscriber has a room with the same alias, and a
\* record of a room changes only while its owner's command is processed.
C3_NoCrossSubscriberAccess ==
    [][/\ \A x \in reads' : RoomSubscriber[x[2]] = x[1] /\ RoomIsActive[x[2]]
       /\ pc' = "rooms" =>
             \A r \in targets' : RoomSubscriber[r] = cur' /\ RoomIsActive[r]
       /\ \A r \in Rooms :
             RowsOf(r)' # RowsOf(r) => pc = "rooms" /\ RoomSubscriber[r] = cur]_vars

\* s2's "summary AAAA" is being processed: it resolved to s2's r3 and r3 was
\* read, while s1's room with the same alias holds unread messages
C3_Witness ==
    /\ pc = "rooms"
    /\ cur = "s2"
    /\ MessageBody(control["s2"]) = <<"summary", "aaaa">>
    /\ targets = {"r3"}
    /\ <<"s2", "r3">> \in reads
    /\ timeline["r1"] # <<>>
    /\ reads = {<<"s2", "r3">>}
    /\ timeline["r1"] # <<>>
    /\ ~\E q \in pstates : q.room = "r1"

\* C4: within a cycle an exception of one subscriber's processing is caught at
\* the subscriber boundary: every subscriber enumerated for the cycle is
\* either still to come in this cycle or has been processed, and when the
\* cycle has ended every one of them has been processed.
C4_EverySubscriberServed ==
    /\ pc \in {"cycle", "rooms"} => served \cup Range(queue) = enumerated
    /\ pc = "sleep" => served = enumerated

\* s1's processing raised, and after it s2 was served in the same cycle
C4_Witness ==
    /\ pc = "cycle"
    /\ queue = <<>>
    /\ stderr = <<"subscriber", "s1">>
    /\ served = {"s1", "s2"}
    /\ control["s2"].sender = FRIDAY_USER_ID

\* C5: an exception in one room of a summary command does not end the loop
\* over the rooms: every room of the target set is either still to come or
\* has had its loop body run, so when the loop ends all of them have.
C5_EveryTargetRoomProcessed ==
    pc = "rooms" =>
        /\ attempted \cup Range(roomQueue) = targets
        /\ attempted \cap Range(roomQueue) = {}

\* summary all of s1: r1 raised (the last failure logged), and r2 was then
\* summarized and sent in the same loop
C5_Witness ==
    /\ pc = "rooms"
    /\ roomQueue = <<>>
    /\ targets = {"r1", "r2"}
    /\ attempted = {"r1", "r2"}
    /\ stderr = <<"room", "r1">>
    /\ summaries_sent = 1
    /\ \E i \in 1..Len(summaries) :
          summaries[i].room = "r2" /\ summaries[i].sent_at = Some(clock)

\* C6: when the LLM/reconcile phase of a room's run raises, the room's
\* ProcessingState ends with status failed and a non-empty failure reason.
C6_FailureRecorded ==
    [][\A r \in Rooms :
          RoomLLMFails(r) =>
              /\ StateOf(pstates', r).status = STATUS_FAILED
              /\ StateOf(pstates', r).failure_reason # ""]_vars

\* no watermark counts as the earliest one
NotEarlier(a, b) == a = None \/ (b # None /\ Val(a) <= Val(b))

\* C7: no step sets the last-synced-message timestamp of a ProcessingState to
\* a value earlier than the one it had.
C7_WatermarkNeverDecreases ==
    [][\A q \in pstates : \A n \in pstates' :
          q.id = n.id => NotEarlier(q.last_message_synced_at, n.last_message_synced_at)]_vars

\* a room summarized twice: the second run started at the watermark the first
\* one left and moved it on
C7_Witness ==
    \E q \in pstates : \E i, j \in 1..Len(summaries) :
        /\ i < j
        /\ summaries[i].room = q.room
        /\ summaries[j].room = q.room
        /\ summaries[j].from_timestamp = Some(summaries[i].to_timestamp)
        /\ summaries[i].to_timestamp < summaries[j].to_timestamp
        /\ q.last_message_synced_at = Some(summaries[j].to_timestamp)

\* C8: each watched room has at most one ProcessingState row.
C8_OneStatePerRoom ==
    \A r \in Rooms : Cardinality({q \in pstates : q.room = r}) <= 1

\* a room whose loop body ran in two summary commands has one row
C8_Witness ==
    \E r \in Rooms :
        /\ Cardinality({q \in pstates : q.room = r}) = 1
        /\ Cardinality({i \in 1..Len(summaries) : summaries[i].room = r}) = 2

\* process_subscriber(s) runs in this step: s leaves the head of the loop
Processed(s) == Dispatching(s) /\ s \notin served /\ s \in served'

\* C11: when the latest message of a subscriber's control room is the bot's
\* own, processing that subscriber dispatches no command and sends nothing,
\* whatever the text of that message is (the replies "help", "rooms" and
\* "tasks" read like commands).
C11_NoReactionToOwnMessage ==
    [][\A s \in Subscribers :
          Processed(s) /\ control[s].sender = FRIDAY_USER_ID =>
              /\ control' = control
              /\ UNCHANGED dbVars
              /\ pc' = "cycle"
              /\ reads' = {}]_vars

\* s2, whose latest message is the bot's task list of an earlier cycle, is
\* next in the loop, after s1, whose latest message is the bot's too
C11_Witness ==
    /\ pc = "cycle"
    /\ served = {"s1"}
    /\ queue = <<"s2">>
    /\ control["s1"].sender = FRIDAY_USER_ID
    /\ control["s2"] = FridayMessage("tasks")

CommandWords == {"help", "rooms", "room", "summary", "todo", "task", "tasks"}
MatchesNoPattern(s) == Inbound(s) /\ CommandOf(s).command = ""
FirstToken(s) == MessageBody(control[s])[1]

\* C12: for a latest message that matches no command pattern, processing the
\* subscriber sends the one guidance reply (or fails at the gateway and sends
\* nothing) when the first token is a command word, and otherwise sends
\* nothing and changes no record, in every cycle that finds it.
C12_ChatIsIgnored ==
    [][\A s \in Subscribers :
          Processed(s) /\ MatchesNoPattern(s) =>
              /\ UNCHANGED dbVars
              /\ pc' = "cycle"
              /\ IF FirstToken(s) \in CommandWords
                 THEN \/ control' = [control EXCEPT ![s] = FridayMessage("guidance")]
                      \/ control' = control /\ stderr' = <<"subscriber", s>>
                 ELSE control' = control]_vars

\* in one cycle without a failure s1 has the guidance reply and s2, whose
\* latest message is chat that holds a command word after its first token,
\* has been passed
C12_Witness ==
    /\ pc = "cycle"
    /\ queue = <<>>
    /\ served = {"s1", "s2"}
    /\ stderr = <<>>
    /\ control["s1"] = FridayMessage("guidance")
    /\ control["s2"] = [body |-> <<"hello", "help">>, sender |-> "@user"]

Notice == FridayMessage("nothing")

\* C13: process_summaries counts the summaries it sent; when it ends, it sends
\* the fallback notice once (or fails at the gateway) if that count is zero
\* and sends nothing if it is not; the notice is sent at no other point.
C13_FallbackNotice ==
    [][/\ pc # "rooms" /\ pc' = "rooms" => summaries_sent' = 0
       /\ pc = "rooms" /\ pc' = "rooms" =>
             LET n == Len(summaries')
                 sent == n = Len(summaries) + 1 /\ summaries'[n].sent_at # None
             IN summaries_sent' = IF sent THEN summaries_sent + 1 ELSE summaries_sent
       /\ pc = "rooms" /\ pc' = "cycle" =>
             IF summaries_sent = 0
             THEN \/ control' = [control EXCEPT ![cur] = Notice]
                  \/ control' = control /\ stderr' = <<"subscriber", cur>>
             ELSE control' = control
       /\ \A s \in Subscribers :
             control'[s] = Notice /\ control[s] # Notice =>
                 pc = "rooms" /\ pc' = "cycle" /\ s = cur]_vars

\* s2's summary command found nothing new and got the notice; in a later
\* cycle s1's command had one summary sent and ended without a notice
C13_Witness ==
    /\ pc = "cycle"
    /\ summaries_sent = 1
    /\ "s1" \in served
    /\ control["s1"] = FridayMessage("summary")
    /\ control["s2"] = Notice

\* C14: when the send attempt for a Summary has completed, the Summary has
\* exactly one delivery outcome: a sent timestamp or a failure timestamp.
C14_DeliveryOutcomeRecorded ==
    [][pc = "rooms" /\ Len(summaries') = Len(summaries) + 1 =>
          LET x == summaries'[Len(summaries')]
          IN (x.sent_at # None) # (x.send_failed_at # None)]_vars

ValidStatuses == {STATUS_PENDING, STATUS_DONE, STATUS_CANCELLED}

\* process_room is at the head of its loop over todo_updates and takes a step
AtUpdate == rcPc = "updates" /\ rcVars' # rcVars
WellFormedHead == Head(rcUpdates) # Malformed

C16_NoCrossRoomTaskUpdate ==
    [][/\ AtUpdate /\ WellFormedHead /\ Head(rcUpdates).id \in 1..Len(todos)
          /\ todos[Head(rcUpdates).id].room # Some(rcRoom) =>
             /\ todos' = todos
             /\ rcPc' # "raised"
             /\ rcTodo' = None
             /\ rcUpdates' = Tail(rcUpdates)
       /\ rcPc = "loaded" /\ rcPc' # "loaded" =>
             \A i \in 1..Len(todos) :
                 todos[i].room # Some(rcRoom) => todos'[i] = todos[i]]_vars

\* a run for r1 whose updates named a task of no room and a task of r2 has
\* stored its Summary and both tasks are as they were
C16_Witness ==
    /\ rcPc = "done"
    /\ rcRoom = "r1"
    /\ Len(rcStart) = 2
    /\ rcStart[1].room = None
    /\ rcStart[2].room = Some("r2")
    /\ rcResult.todo_updates =
           <<[id |-> 1, notes |-> "", status |-> STATUS_CANCELLED],
             [id |-> 2, notes |-> "n", status |-> ""]>>
    /\ todos = rcStart

\* C17: every task's status is pending, done or cancelled, and a save for an
\* update whose status is none of these writes the status the task was
\* loaded with.
C17_StatusStaysValid ==
    /\ [](\A i \in 1..Len(todos) : todos[i].status \in ValidStatuses)
    /\ [][rcPc = "loaded" /\ rcPc' # "loaded"
             /\ Head(rcUpdates).status \notin ValidStatuses =>
                 todos'[Val(rcTodo)[1]].status = Val(rcTodo)[2].status]_vars

\* a task set to done by hand was named with status "archived" by the run, which
\* stored its Summary; the task is still done
C17_Witness ==
    /\ rcPc = "done"
    /\ apiPc = "ok"
    /\ Len(rcStart) = 1
    /\ rcStart[1].room = Some(rcRoom)
    /\ rcStart[1].status = STATUS_DONE
    /\ rcResult.todo_updates = <<[id |-> 1, notes |-> "", status |-> "archived"]>>
    /\ todos[1].status = STATUS_DONE

\* the run's updates set no status
NoteOnlyRun ==
    \A k \in 1..Len(rcResult.todo_updates) :
        /\ rcResult.todo_updates[k] # Malformed
        /\ rcResult.todo_updates[k].status \notin ValidStatuses

\* C18: when a run whose updates only append notes and a manual status update
\* of a task have both completed, the task has the manually set status.
C18_BothWritesPersist ==
    rcPc = "done" /\ apiPc = "ok" /\ NoteOnlyRun =>
        todos[apiReq.id].status = apiReq.status

\* C19: when the run has raised, no task mutation of the run is persisted:
\* the tasks that were there when it began are as they were, and no task the
\* run created is there.
C19_RaisedRunLeavesNoTaskMutation ==
    rcPc = "raised" /\ apiPc # "ok" =>
        /\ SubSeq(todos, 1, Len(rcStart)) = rcStart
        /\ \A i \in (Len(rcStart) + 1)..Len(todos) : todos[i].description # "task"

CountedCalls(r) == {w \in Workers : cntRoom[w] = r /\ cntPc[w] \in {"refresh", "done"}}
DailyRowsOf(r) == {d \in daily : d.room = r /\ d.date = Date(clock)}

\* C20: at every point of k concurrent calls for one room and date there is
\* at most one counter row for them, and its count is the number of calls
\* whose UPDATE has run: no increment is lost.
C20_AtomicDailyIncrement ==
    \A r \in Rooms :
        /\ Cardinality(DailyRowsOf(r)) <= 1
        /\ CountedCalls(r) # {} => DailyRowsOf(r) # {}
        /\ \A d \in DailyRowsOf(r) : d.count = Cardinality(CountedCalls(r))

\* every worker has incremented the counter of r1 while the others were in
\* their calls: each of them read the final count back
C20_Witness ==
    /\ \A w \in Workers : cntPc[w] = "done" /\ cntRoom[w] = "r1" /\ cntLocal[w] = NumWorkers
    /\ \E d \in daily : d.room = "r1" /\ d.count = NumWorkers


\* the stored count of a room and a date, 0 when there is no row
DailyCountOf(r, d) ==
    IF DailyExists(daily, r, d) THEN DailyRow(daily, r, d).count ELSE 0

\* the Summaries of a room whose run completed on a date
RunsCompletedOn(r, d) ==
    {i \in 1..Len(summaries) : summaries[i].room = r /\ Date(summaries[i].created_at) = d}

\* C21: for every room and calendar date, the daily count equals the number
\* of summarization runs of that room that completed on that date.
C21_CountEqualsRunsOfTheDate ==
    \A r \in Rooms, d \in 0..MaxDays :
        DailyCountOf(r, d) = Cardinality(RunsCompletedOn(r, d))

\* the counts of a room, added up over the dates up to d
RECURSIVE SumCounts(_, _)
SumCounts(r, d) == IF d < 0 THEN 0 ELSE DailyCountOf(r, d) + SumCounts(r, d - 1)

\* the step in which a summarization run of room r completes
RunCompletes(r) ==
    /\ Len(summaries') = Len(summaries) + 1
    /\ summaries'[Len(summaries')].room = r

\* C21 (as the program keeps it): the daily count of a room and a date never
\* decreases; it grows by exactly one, on the date on which the summary
\* command was taken up, with every completed run of the room and changes in
\* no other step, so that the counts of a room add up to its Summaries; and
\* the count handed to the trailer by the first run of a room counted on a
\* date is 1.
C21_CountTracksCompletedRuns ==
    /\ [](\A r \in Rooms :
            /\ SumCounts(r, MaxDays) = Cardinality({i \in 1..Len(summaries) : summaries[i].room = r})
            /\ Cardinality({d \in daily : d.room = r}) =
                 Cardinality({d.date : d \in {e \in daily : e.room = r}}))
    /\ [][/\ \A r \in Rooms, d \in 0..MaxDays : DailyCountOf(r, d)' >= DailyCountOf(r, d)
          /\ (pc # "rooms" /\ pc' = "rooms") => today' = Date(clock)
          /\ \A r \in Rooms :
                IF RunCompletes(r)
                THEN /\ DailyCountOf(r, today)' = DailyCountOf(r, today) + 1
                     /\ DailyCountOf(r, today)' = question_count(daily, r, today)
                     /\ DailyCountOf(r, today) = 0 => question_count(daily, r, today) = 1
                     /\ \A q \in Rooms, d \in 0..MaxDays :
                            <<q, d>> # <<r, today>> => DailyCountOf(q, d)' = DailyCountOf(q, d)
                ELSE (\A q \in Rooms : ~RunCompletes(q)) => daily' = daily]_vars

\* a room with a first run counted on each of two dates, the second one taken
\* up before midnight and completed after it
C21_Witness ==
    \E r \in Rooms :
        /\ DailyCountOf(r, 0) = 2
        /\ DailyCountOf(r, 1) = 0
        /\ Cardinality(RunsCompletedOn(r, 1)) = 1

\* the watermark and the last-summarized time of a room, None without a row
MarksOf(ps, r) ==
    IF \E q \in ps : q.room = r
    THEN LET q == CHOOSE x \in ps : x.room = r
         IN <<q.last_message_synced_at, q.last_summarized_at>>
    ELSE <<None, None>>

\* the room at the head of the loop has no message newer than its watermark
NothingNewer(r) ==
    /\ InRoomLoop(r)
    /\ NewerThan(timeline[r], MarksOf(pstates, r)[1]) = {}

\* C22: when process_summaries takes up a room with no message newer than its
\* watermark, the step stores no Summary, changes no Task, sends nothing,
\* leaves the watermark, the last-summarized time and every daily count as
\* they were, and goes on with the remaining rooms.
C22_NothingNewerIsNothingToDo ==
    [][\A r \in Rooms :
          (NothingNewer(r) /\ attempted' # attempted) =>
              /\ summaries' = summaries
              /\ todos' = todos
              /\ daily' = daily
              /\ control' = control
              /\ summaries_sent' = summaries_sent
              /\ MarksOf(pstates', r) = MarksOf(pstates, r)
              /\ roomQueue' = Tail(roomQueue)
              /\ pc' = "rooms"]_vars

\* a room summarized in an earlier cycle (its reply failed, and stderr has been
\* cleared since) is taken up again with nothing newer and is passed over, a
\* second room still waiting behind it
C22_Witness ==
    /\ pc = "rooms"
    /\ attempted = {"r1"}
    /\ roomQueue = <<"r2">>
    /\ stderr = <<>>
    /\ timeline["r1"] # <<>>
    /\ MarksOf(pstates, "r1")[1] # None
    /\ NewerThan(timeline["r1"], MarksOf(pstates, "r1")[1]) = {}
    /\ Len(summaries) = 1
    /\ summaries[1].room = "r1"
    /\ summaries[1].sent_at = None

\* C23: whatever the completion text, the run that processes it does not
\* raise while it reconciles the tasks: a malformed reply is absorbed.
C23_NoReplyRaises ==
    [][rcPc = "updates" => rcPc' # "raised"]_vars

\* C24: the stop signal changes nothing but the running flag, so the
\* operation in flight goes on where it was; while the flag is down no cycle
\* is started, the cycle in flight ends only with every enumerated
\* subscriber served and a room loop only with every target room taken up,
\* the worker stops only from between two cycles; and, its calls returning,
\* it does stop.
C24_GracefulStop ==
    /\ [][/\ (running /\ ~running') =>
                UNCHANGED <<pc, queue, enumerated, served, cur, roomQueue, targets, attempted,
                            summaries_sent, dbVars, control>>
          /\ (~running /\ pc = "sleep") =>
                (pc' \in {"sleep", "stopped"} /\ UNCHANGED <<queue, served, enumerated>>)
          /\ (~running /\ pc = "cycle" /\ pc' = "sleep") => served = enumerated
          /\ (~running /\ pc = "rooms" /\ pc' = "cycle") => attempted = targets
          /\ (pc # "stopped" /\ pc' = "stopped") => (pc = "sleep" /\ ~running)
          /\ pc = "stopped" => pc' = "stopped"]_vars
    /\ (~running ~> pc = "stopped")

\* the signal has come while the room loop of a command was running, one room
\* summarized and delivered, the next one still to come
C24_Witness ==
    /\ ~running
    /\ pc = "rooms"
    /\ roomQueue = <<"r2">>
    /\ Len(summaries) = 1
    /\ summaries[1].sent_at # None

\* the subscribers that are active, hold an active subscription and have a
\* control-room address
Eligible ==
    {s \in Subscribers : /\ subs[s].is_active
                         /\ subs[s].subscription = "active"
                         /\ subs[s].matrix_room_id \notin {None, Some("")}}

\* C25: a cycle enumerates exactly the subscribers eligible at its start,
\* each once; only enumerated subscribers are processed or sent a message;
\* so after a subscriber is deactivated no cycle started later fetches,
\* dispatches or sends for it.
C25_OnlyEligibleSubscribersServed ==
    /\ [](pc # "sleep" =>
            /\ Range(queue) \subseteq enumerated
            /\ served \subseteq enumerated)
    /\ [][/\ (pc = "sleep" /\ running /\ (pc' = "cycle" \/ enumerated' # enumerated)) =>
                /\ enumerated' = Eligible
                /\ Range(queue') = Eligible
                /\ Len(queue') = Cardinality(Eligible)
          /\ \A s \in Subscribers :
                /\ Processed(s) => s \in enumerated
                /\ (control'[s] # control[s] /\ control'[s].sender = FRIDAY_USER_ID) =>
                       (pc # "sleep" /\ s \in enumerated)]_vars

\* s1 typed help and was deactivated; the cycle started afterwards serves s2
\* alone and s1's command stays unanswered
C25_Witness ==
    /\ ~subs["s1"].is_active
    /\ control["s1"] = [body |-> <<"help">>, sender |-> "@user"]
    /\ pc = "cycle"
    /\ enumerated = {"s2"}
    /\ served = {"s2"}
    /\ control["s2"] = FridayMessage("help")

\* C26: the alias _generate_unique_code returns is not yet assigned to the
\* subscriber, whether it comes from the loop or from the fallback.
C26_GeneratedAliasIsUnassigned ==
    genPc = "save" => ~CodeExists(genSub, genCode)

\* the latest message of s's control room is the bot's own
BotSpokeLast(s) == control[s] # NoMessage /\ control[s].sender = FRIDAY_USER_ID

\* the latest message of s's control room is a recognized command of the user
CommandWaiting(s) ==
    /\ control[s] # NoMessage
    /\ control[s].sender # FRIDAY_USER_ID
    /\ parse_command(MessageBody(control[s])).command # ""

\* C27: a reply the worker delivers to a subscriber becomes the latest message
\* of the control room, and while the bot's message is the latest, taking up
\* that subscriber dispatches nothing; a handler that ends without having
\* delivered a reply leaves the command as the latest message and the failure
\* on stderr, and a command that is the latest message is dispatched whenever
\* its subscriber is taken up (unless reading the control room itself fails).
C27_DispatchedUntilAnswered ==
    [][\A s \in Subscribers :
          /\ (Dispatching(s) /\ BotSpokeLast(s)) => pc' # "rooms"
          /\ (Processed(s) /\ BotSpokeLast(s)) => (control' = control /\ UNCHANGED dbVars)
          /\ (Processed(s) /\ CommandWaiting(s)) =>
                \/ control'[s] # control[s] /\ control'[s].sender = FRIDAY_USER_ID
                \/ control' = control /\ stderr' = <<"subscriber", s>>
          /\ (pc = "rooms" /\ cur = s /\ summaries_sent' > summaries_sent) =>
                (control'[s].sender = FRIDAY_USER_ID /\ control'[s] # Notice)
          /\ (pc = "rooms" /\ cur = s /\ pc' = "cycle") =>
                IF summaries_sent > 0 THEN control' = control
                ELSE \/ control'[s] = Notice
                     \/ control' = control /\ stderr' = <<"subscriber", s>>]_vars

\* one "summary all" dispatched twice: the first time the only summary could
\* not be delivered, nor could the fallback notice; a later cycle took the
\* command up again and delivered the summary of the messages that had
\* arrived since
C27_Witness ==
    /\ commands = 1
    /\ Len(summaries) = 2
    /\ summaries[1].room = "r1" /\ summaries[1].sent_at = None
    /\ summaries[2].room = "r1" /\ summaries[2].sent_at # None
    /\ control["s1"] = FridayMessage("summary")

\* the messages a Summary covers are those with from < ts <= to
Covers(x, ts) ==
    /\ x.from_timestamp = None \/ Val(x.from_timestamp) < ts
    /\ ts <= x.to_timestamp

\* the timestamps met in the model
Timestamps == 0..MaxClock

RunRaises(r) ==
    /\ InRoomLoop(r)
    /\ NewerThan(timeline[r], MarksOf(pstates, r)[1]) # {}
    /\ attempted' # attempted
    /\ summaries' = summaries

\* C29: a run of a room that has newer messages and ends without a stored
\* Summary leaves the watermark, the last-summarized time, every daily count
\* and the Summaries as they were, sends nothing, writes the failure to
\* stderr and goes on with the next room; the messages are still newer than
\* the watermark, so the next command fetches them again.
C29_RaisedRunLeavesWatermark ==
    [][\A r \in Rooms :
          RunRaises(r) =>
              /\ MarksOf(pstates', r) = MarksOf(pstates, r)
              /\ daily' = daily
              /\ control' = control
              /\ summaries_sent' = summaries_sent
              /\ stderr' = <<"room", r>>
              /\ roomQueue' = Tail(roomQueue)
              /\ get_messages(timeline'[r], MarksOf(pstates', r)[1])
                   = get_messages(timeline[r], MarksOf(pstates, r)[1])
              /\ get_messages(timeline'[r], MarksOf(pstates', r)[1]) # <<>>]_vars

\* the run over r1's first message has raised after it had created a task:
\* the task is there, no Summary is, and r1 has no watermark
C29_Witness ==
    /\ pc = "rooms"
    /\ stderr = <<"room", "r1">>
    /\ "r1" \in attempted
    /\ timeline["r1"] # <<>>
    /\ Len(todos) = 1
    /\ summaries = <<>>
    /\ MarksOf(pstates, "r1") = <<None, None>>

\* the Summaries of room r, as indices in creation order
SummariesOf(r) == {i \in 1..Len(summaries) : summaries[i].room = r}

\* j is the Summary of its room that follows i
FollowsInRoom(i, j) ==
    /\ i < j
    /\ summaries[i].room = summaries[j].room
    /\ \A k \in SummariesOf(summaries[i].room) : ~(i < k /\ k < j)

====
